---- MODULE Spec2Model ----
(***************************************************************************)
(* A model of render_images.py of CLEVR-ER: the main loop over images,     *)
(* render_scene, the constrained placement of add_random_objects (with its *)
(* per-object retry counter and its whole-scene restart by recursion) and  *)
(* compute_all_relationships.                                              *)
(*                                                                         *)
(* Arithmetic.  The source computes in floating point; the model computes  *)
(* the same expressions exactly over a grid.  Lengths are integers in      *)
(* units of 1/10 of a scene unit (x, y in [-3, 3] is -30..30, the default  *)
(* margin 0.4 is 4, the default eps 0.2 is 2; min_dist and the radii of    *)
(* the catalog are inputs and taken on the grid).  A radius is a pair      *)
(* [a, b] standing for a + b/sqrt(2), so that the division by sqrt(2)      *)
(* applied to cubes is exact.  A direction vector is an integer triple of  *)
(* length UnitLen standing for a unit vector.                              *)
(***************************************************************************)
EXTENDS Integers, Sequences, FiniteSets, TLC

VARIABLES
    args,             \* the parsed command line (fixed during a run)
    pc,               \* position of the single thread of control
    img,              \* main: loop variable i over range(num_images)
    num_objects,      \* main: random.randint(min_objects, max_objects)
    scene_struct,     \* render_scene: directions, objects, relationships
    host,             \* the objects live in the Blender scene
    positions,        \* add_random_objects: (x, y, z, r) of placed objects
    objects,          \* add_random_objects: the records of placed objects
    blender_objects,  \* add_random_objects: the handles of placed objects
    i,                \* add_random_objects: loop variable of the for loop
    size,             \* add_random_objects: (size_name, r) of random.choice
    num_tries,        \* add_random_objects: tries of the current object
    restarted,        \* history: the current call is a restart of the scene
    render_failures,  \* history: failed renders of the current image
    scene_files,      \* image indices whose scene record was written
    eps,              \* compute_all_relationships: the threshold
    rand_mat          \* add_random_objects: random.randint(0, 1)

vars == <<args, pc, img, num_objects, scene_struct, host, positions, objects,
          blender_objects, i, size, num_tries, restarted, render_failures,
          scene_files, eps, rand_mat>>

----------------------------------------------------------------------------
(* Bounds of the model.                                                    *)

\* The sampling intervals of x and y are cut into GridN equal steps.
GridN == 1

\* One more value of x and y is sampled, this close to the upper end, so
\* that two objects can come closer along a direction than the threshold
\* of the relationships.
NearGap == 2

\* The sampling interval of z of object 0 is cut into ZGridN equal steps.
ZGridN == 1

\* A failing render is repeated at most this often per image.
MaxRenderFailures == 1

\* Objects of a scene handed to compute_all_relationships on its own.
MaxRelObjects == 3

----------------------------------------------------------------------------
(* Program constants, in model units.                                      *)

\* normalized(): a direction vector of length UnitLen stands for length 1.
UnitLen == 5

\* random.uniform(-3, 3)
XYMin == -30
XYMax == 30

\* random.uniform(1, 4) for object 0, z = 0 for object 1
ZMin == 10
ZMax == 40
ZGround == 0

\* compute_all_relationships(scene_struct, eps=0.2)
DefaultEps == 2

Neg(v) == <<-v[1], -v[2], -v[3]>>

\* the sign of front is lost
DirectionFrame_FrontNotNegated(plane_behind, plane_left, plane_up) ==
    [behind |-> plane_behind, front |-> plane_behind,
     left   |-> plane_left,   right |-> Neg(plane_left),
     above  |-> plane_up,     below |-> Neg(plane_up)]

\* render_scene: the six directions from plane_behind, plane_left, plane_up.
DirectionFrame(plane_behind, plane_left, plane_up) ==
    [behind |-> plane_behind, front |-> Neg(plane_behind),
     left   |-> plane_left,   right |-> Neg(plane_left),
     above  |-> plane_up,     below |-> Neg(plane_up)]

\* The camera poses of the runs: the camera looks along x, or is turned by
\* the angle of the 3-4-5 triangle; up is the normal of the ground plane.
Frames ==
    { DirectionFrame(<<-5, 0, 0>>, <<0, 5, 0>>, <<0, 0, 5>>),
      DirectionFrame(<<-4, -3, 0>>, <<-3, 4, 0>>, <<0, 0, 5>>) }

\* The pose of the camera of the base scene, which is not moved unless
\* args.camera_jitter > 0.
BaseFrame == DirectionFrame(<<-4, -3, 0>>, <<-3, 4, 0>>, <<0, 0, 5>>)

CameraFrames(a) == IF a.camera_jitter > 0 THEN Frames ELSE { BaseFrame }

\* properties.json: sizes (name, radius) and shapes (asset name, name).
size_mapping == { <<"large", 7>>, <<"small", 3>> }
object_mapping == { <<"Cube", "cube">>, <<"Sphere", "sphere">> }

\* properties.json: the names of the colors, and the materials (asset
\* name, name) in the order of the file.
color_names == { "red", "blue" }
material_mapping == << <<"Rubber", "rubber">>, <<"MyMetal", "metal">> >>

\* --shape_color_combos_json: no file, or the list of the items of a file
\* (shape name, list of the names of the allowed colors).
NoCombos == <<>>
CombosOneEach == << <<"cube", <<"red">> >>, <<"sphere", <<"blue">> >> >>
CombosSphereFree ==
    << <<"cube", <<"red">> >>, <<"sphere", <<"blue", "red">> >> >>

\* The command lines of the runs.
Configs ==
    { \* a budget of two tries, a table of shapes and colors
      [min_objects |-> 2, max_objects |-> 2, min_dist |-> 2, margin |-> 8,
       max_retries |-> 2, num_images |-> 1, camera_jitter |-> 5,
       shape_color_combos |-> CombosOneEach],
      \* a wide margin and a larger minimal distance, a single try, no table
      [min_objects |-> 1, max_objects |-> 2, min_dist |-> 5, margin |-> 16,
       max_retries |-> 1, num_images |-> 1, camera_jitter |-> 0,
       shape_color_combos |-> NoCombos],
      \* up to three objects requested, two images
      [min_objects |-> 2, max_objects |-> 3, min_dist |-> 5, margin |-> 16,
       max_retries |-> 1, num_images |-> 2, camera_jitter |-> 0,
       shape_color_combos |-> CombosOneEach],
      \* no retry budget
      [min_objects |-> 1, max_objects |-> 1, min_dist |-> 2, margin |-> 4,
       max_retries |-> 0, num_images |-> 1, camera_jitter |-> 5,
       shape_color_combos |-> NoCombos],
      \* no position of the second object is far enough from the first
      [min_objects |-> 2, max_objects |-> 2, min_dist |-> 100, margin |-> 4,
       max_retries |-> 1, num_images |-> 1, camera_jitter |-> 5,
       shape_color_combos |-> CombosSphereFree] }

----------------------------------------------------------------------------
(* Exact arithmetic with sqrt(2).                                          *)

\* l < q * sqrt(2)
LtSqrt2(l, q) ==
    IF q >= 0
    THEN IF l < 0 THEN TRUE ELSE l * l < 2 * q * q
    ELSE IF l >= 0 THEN FALSE ELSE l * l > 2 * q * q

\* A catalog radius.
Radius(r) == [a |-> r, b |-> 0]

\* r /= math.sqrt(2)
DivSqrt2(r) == [a |-> r.b \div 2, b |-> r.a]

\* dist - r - rr < min_dist, for dist = sqrt(d2)
TooClose(d2, r, rr, min_dist) ==
    LET A == r.a + rr.a + min_dist
        B == r.b + rr.b
    IN  /\ LtSqrt2(-B, A)
        /\ LtSqrt2(2 * d2 - 2 * A * A - B * B, 2 * A * B)

----------------------------------------------------------------------------
(* The scene host (utils.add_object, utils.delete_object,                  *)
(* bpy.ops.wm.open_mainfile).  A host object carries the index under which *)
(* it was placed and, as history, whether the attempt that placed it was   *)
(* abandoned.                                                              *)

\* utils.add_object(shape_dir, obj_name, r, (x, y, z)); bpy.context.object
new_object(idx, obj_name, r, loc) ==
    [idx |-> idx, name |-> obj_name, scale |-> r, location |-> loc,
     stale |-> FALSE]

add_object(h, obj) == h \cup {obj}

delete_object(h, obj) == h \ {obj}

Range(s) == { s[k] : k \in 1..Len(s) }

\* nothing is deleted
DeleteAll_Nothing(h, objs) == h

\* for obj in blender_objects: utils.delete_object(obj)
RECURSIVE DeleteAll(_, _)
DeleteAll(h, objs) ==
    IF objs = <<>> THEN h
    ELSE DeleteAll(delete_object(h, Head(objs)), Tail(objs))

\* History: what outlives a restart was placed by an abandoned attempt.
Abandon(h) == { [o EXCEPT !.stale = TRUE] : o \in h }

----------------------------------------------------------------------------
(* add_random_objects: sampling and the placement test.                    *)

\* random.uniform(-3, 3)
XYS ==
    { XYMin + (k * (XYMax - XYMin)) \div GridN : k \in 0..GridN }
        \cup { XYMax - NearGap }

\* the roles of object 0 and object 1 are exchanged
SampleZ_RolesSwapped(idx) ==
    IF idx = 1
    THEN { ZMin + (k * (ZMax - ZMin)) \div ZGridN : k \in 0..ZGridN }
    ELSE { ZGround }

\* i == 0: random.uniform(1, 4); i == 1: 0
SampleZ(idx) ==
    IF idx = 0
    THEN { ZMin + (k * (ZMax - ZMin)) \div ZGridN : k \in 0..ZGridN }
    ELSE { ZGround }

HorizontalNames == <<"left", "right", "front", "behind">>
VerticalNames == <<"above", "below">>

\* the radius of the placed object is left out
DistGood_NoOtherRadius(dx, dy, dz, r, rr, min_dist) ==
    ~TooClose(dx * dx + dy * dy + dz * dz, r, Radius(0), min_dist)

\* the radius of the new object is divided as if it were a cube
DistGood_NewDivided(dx, dy, dz, r, rr, min_dist) ==
    ~TooClose(dx * dx + dy * dy + dz * dz, DivSqrt2(r), rr, min_dist)

\* dist - r - rr < args.min_dist sets dists_good = False
DistGood(dx, dy, dz, r, rr, min_dist) ==
    ~TooClose(dx * dx + dy * dy + dz * dz, r, rr, min_dist)

\* 0 < margin < args.margin, margin being UnitLen times the projection
BrokenMargin(m, margin) == 0 < m /\ m < UnitLen * margin

\* the loop over the horizontal directions is left out
MarginsGood_VerticalOnly(dx, dy, dz, dirs, margin) ==
    \A n \in 1..Len(VerticalNames) :
        ~BrokenMargin(dz * dirs[VerticalNames[n]][3], margin)

\* only one direction of each axis is tested
MarginsGood_OneSided(dx, dy, dz, dirs, margin) ==
    /\ ~BrokenMargin(dx * dirs["left"][1] + dy * dirs["left"][2], margin)
    /\ ~BrokenMargin(dx * dirs["front"][1] + dy * dirs["front"][2], margin)
    /\ ~BrokenMargin(dz * dirs["above"][3], margin)

\* the two loops over the direction names for one placed object
MarginsGood(dx, dy, dz, dirs, margin) ==
    /\ \A n \in 1..Len(HorizontalNames) :
          ~BrokenMargin(dx * dirs[HorizontalNames[n]][1]
                          + dy * dirs[HorizontalNames[n]][2], margin)
    /\ \A n \in 1..Len(VerticalNames) :
          ~BrokenMargin(dz * dirs[VerticalNames[n]][3], margin)

\* dists_good and margins_good after the loop over positions; r is the
\* radius of random.choice(size_mapping), not yet adjusted for a cube
PlacementGood(x, y, z, r, pos, dirs, a) ==
    \A k \in 1..Len(pos) :
        LET dx == x - pos[k][1]
            dy == y - pos[k][2]
            dz == z - pos[k][3]
        IN  /\ DistGood(dx, dy, dz, r, pos[k][4], a.min_dist)
            /\ MarginsGood(dx, dy, dz, dirs, a.margin)

\* obj_name = [k for k, v in object_mapping if v == obj_name_out][0]
AssetOf(obj_name_out) ==
    CHOOSE k \in { m[1] : m \in object_mapping } :
        <<k, obj_name_out>> \in object_mapping

\* the table is ignored
ShapeColorChoices_TableIgnored(combos) ==
    { <<m[1], m[2], c>> : m \in object_mapping, c \in color_names }

\* the (obj_name, obj_name_out, color_name) that the choice of shape and
\* color can give: independent choices without a table, else an item of
\* the table, one of its colors, and the asset of the shape of that name
ShapeColorChoices(combos) ==
    IF combos = NoCombos
    THEN { <<m[1], m[2], c>> : m \in object_mapping, c \in color_names }
    ELSE UNION { { <<AssetOf(combos[e][1]), combos[e][1], combos[e][2][c]>> :
                     c \in 1..Len(combos[e][2]) } : e \in 1..Len(combos) }

\* both objects take the entry rand_mat
MaterialIndex_SameForBoth(idx, rm) == rm

\* i == 0: material_mapping[rand_mat]; i == 1: material_mapping[1 - rand_mat]
MaterialIndex(idx, rm) == IF idx = 0 THEN rm ELSE 1 - rm

\* if obj_name == 'Cube': r /= math.sqrt(2)
EffectiveRadius(obj_name, r) ==
    IF obj_name = "Cube" THEN DivSqrt2(r) ELSE r

----------------------------------------------------------------------------
(* compute_all_relationships.  Object indices are those of the source,     *)
(* 0 .. n-1; the entry of object i is element i + 1 of a sequence.         *)

RelationNames == { "behind", "front", "left", "right" }

\* sum(diff[k] * direction_vec[k] for k in [0, 1, 2]), diff = c2 - c1
Dot(c1, c2, vec) ==
    (c2[1] - c1[1]) * vec[1] + (c2[2] - c1[2]) * vec[2]
        + (c2[3] - c1[3]) * vec[3]

\* an object is not skipped against itself
Related_NoSkip(objs, vec, e, i1) ==
    { j \in 0..(Len(objs) - 1) :
        Dot(objs[i1 + 1].coords, objs[j + 1].coords, vec) > UnitLen * e }

\* the inner loop: the set related of object i
Related(objs, vec, e, i1) ==
    { j \in 0..(Len(objs) - 1) :
        /\ objs[i1 + 1] # objs[j + 1]
        /\ Dot(objs[i1 + 1].coords, objs[j + 1].coords, vec) > UnitLen * e }

\* sorted(list(related))
RECURSIVE SortedList(_)
SortedList(S) ==
    IF S = {} THEN <<>>
    ELSE LET m == CHOOSE x \in S : \A y \in S : x <= y
         IN  <<m>> \o SortedList(S \ {m})

\* above and below are not skipped
compute_all_relationships_NoSkip(ss, e) ==
    [name \in DOMAIN ss.directions |->
        [k \in 1..Len(ss.objects) |->
            SortedList(Related(ss.objects, ss.directions[name], e, k - 1))]]

\* for name, direction_vec in scene_struct['directions'].items(), but for
\* above and below: the list of the sorted lists of the objects
compute_all_relationships(ss, e) ==
    [name \in DOMAIN ss.directions \ {"above", "below"} |->
        [k \in 1..Len(ss.objects) |->
            SortedList(Related(ss.objects, ss.directions[name], e, k - 1))]]

----------------------------------------------------------------------------
(* The run: main, render_scene, add_random_objects.                        *)

NoSize == <<"none", 0>>
NoScene == [directions |-> <<>>, objects |-> <<>>, relationships |-> <<>>]

Init ==
    /\ args \in Configs
    /\ pc = "main"
    /\ img = 0
    /\ num_objects = 0
    /\ scene_struct = NoScene
    /\ host = {}
    /\ positions = <<>>
    /\ objects = <<>>
    /\ blender_objects = <<>>
    /\ i = 0
    /\ size = NoSize
    /\ num_tries = 0
    /\ restarted = FALSE
    /\ render_failures = 0
    /\ scene_files = {}
    /\ eps = DefaultEps
    /\ rand_mat = 0

\* add_random_objects is entered: positions = [], objects = [],
\* blender_objects = [], rand_mat = random.randint(0, 1), and the for loop
\* starts at i = 0
EnterPlacement ==
    /\ positions' = <<>>
    /\ objects' = <<>>
    /\ blender_objects' = <<>>
    /\ \E rm \in 0..1 : rand_mat' = rm
    /\ i' = 0
    /\ size' = NoSize
    /\ num_tries' = 0
    /\ pc' = "for"

\* main: one iteration of the loop over the images, and render_scene up to
\* its call of add_random_objects: the base scene is loaded, the direction
\* frame is computed from the jittered camera
StartScene ==
    /\ pc = "main"
    /\ img < args.num_images
    /\ \E n \in args.min_objects..args.max_objects : num_objects' = n
    /\ \E f \in CameraFrames(args) :
          scene_struct' = [NoScene EXCEPT !.directions = f]
    /\ host' = {}
    /\ restarted' = FALSE
    /\ render_failures' = 0
    /\ EnterPlacement
    /\ UNCHANGED <<args, img, scene_files, eps>>

\* main: the loop over the images is over, the scene files are combined
Finish ==
    /\ pc = "main"
    /\ img = args.num_images
    /\ pc' = "done"
    /\ UNCHANGED <<args, img, num_objects, scene_struct, host, positions,
                   objects, blender_objects, i, size, num_tries, restarted,
                   render_failures, scene_files, eps, rand_mat>>

\* for i in range(num_objects): a random size, num_tries = 0
NextObject ==
    /\ pc = "for"
    /\ i < num_objects
    /\ \E s \in size_mapping : size' = s
    /\ num_tries' = 0
    /\ pc' = "while"
    /\ UNCHANGED <<args, img, num_objects, scene_struct, host, positions,
                   objects, blender_objects, i, restarted, render_failures,
                   scene_files, eps, rand_mat>>

\* the objects placed so far are returned instead of starting over
Restart_ReturnsPartial ==
    /\ pc = "while"
    /\ num_tries + 1 > args.max_retries
    /\ restarted' = TRUE
    /\ i' = num_objects
    /\ num_tries' = num_tries + 1
    /\ pc' = "for"
    /\ UNCHANGED <<args, img, num_objects, scene_struct, host, positions,
                   objects, blender_objects, size, render_failures,
                   scene_files, eps, rand_mat>>

\* the test is num_tries >= args.max_retries
Restart_OneEarly ==
    /\ pc = "while"
    /\ num_tries + 1 >= args.max_retries
    /\ host' = Abandon(DeleteAll(host, blender_objects))
    /\ restarted' = TRUE
    /\ EnterPlacement
    /\ UNCHANGED <<args, img, num_objects, scene_struct, render_failures,
                   scene_files, eps>>

\* num_tries > args.max_retries: the objects of this attempt are deleted and
\* add_random_objects calls itself, returning what that call returns
Restart ==
    /\ pc = "while"
    /\ num_tries + 1 > args.max_retries
    /\ host' = Abandon(DeleteAll(host, blender_objects))
    /\ restarted' = TRUE
    /\ EnterPlacement
    /\ UNCHANGED <<args, img, num_objects, scene_struct, render_failures,
                   scene_files, eps>>

\* i >= 2: raise NotImplementedError, which nothing catches
Unsupported ==
    /\ pc = "while"
    /\ num_tries + 1 <= args.max_retries
    /\ i >= 2
    /\ num_tries' = num_tries + 1
    /\ pc' = "error"
    /\ UNCHANGED <<args, img, num_objects, scene_struct, host, positions,
                   objects, blender_objects, i, size, restarted,
                   render_failures, scene_files, eps, rand_mat>>

\* a sampled position fails the test: the while loop goes round
Reject(x, y, z) ==
    /\ pc = "while"
    /\ num_tries + 1 <= args.max_retries
    /\ i < 2
    /\ ~PlacementGood(x, y, z, Radius(size[2]), positions,
                      scene_struct.directions, args)
    /\ num_tries' = num_tries + 1
    /\ UNCHANGED <<args, pc, img, num_objects, scene_struct, host, positions,
                   objects, blender_objects, i, size, restarted,
                   render_failures, scene_files, eps, rand_mat>>

\* a sampled position passes the test: shape, radius, the object is added
\* to the host and recorded
Accept(x, y, z, shape, color_name) ==
    /\ pc = "while"
    /\ num_tries + 1 <= args.max_retries
    /\ i < 2
    /\ PlacementGood(x, y, z, Radius(size[2]), positions,
                     scene_struct.directions, args)
    /\ LET r == EffectiveRadius(shape[1], Radius(size[2]))
           obj == new_object(i, shape[1], r, <<x, y, z>>)
           mat == material_mapping[MaterialIndex(i, rand_mat) + 1]
       IN  /\ host' = add_object(host, obj)
           /\ blender_objects' = Append(blender_objects, obj)
           /\ positions' = Append(positions, <<x, y, z, r>>)
           /\ objects' = Append(objects,
                                [shape |-> shape[2], size |-> size[1],
                                 material |-> mat[2],
                                 coords |-> obj.location,
                                 color |-> color_name])
    /\ num_tries' = num_tries + 1
    /\ i' = i + 1
    /\ pc' = "for"
    /\ UNCHANGED <<args, img, num_objects, scene_struct, size, restarted,
                   render_failures, scene_files, eps, rand_mat>>

\* one round of the while loop whose sampled position is rejected
TryRejected ==
    \E x \in XYS, y \in XYS, z \in SampleZ(i) : Reject(x, y, z)

\* one round of the while loop whose sampled position is accepted
TryAccepted ==
    \E x \in XYS, y \in XYS, z \in SampleZ(i),
       c \in ShapeColorChoices(args.shape_color_combos) :
        Accept(x, y, z, <<c[1], c[2]>>, c[3])

\* the for loop is over: add_random_objects returns objects and
\* blender_objects (its other locals are gone), render_scene records the
\* objects and their relationships
Return ==
    /\ pc = "for"
    /\ i >= num_objects
    /\ scene_struct' =
          [scene_struct EXCEPT
              !.objects = objects,
              !.relationships =
                  compute_all_relationships(
                      [scene_struct EXCEPT !.objects = objects], eps)]
    /\ positions' = <<>>
    /\ i' = 0
    /\ size' = NoSize
    /\ num_tries' = 0
    /\ rand_mat' = 0
    /\ pc' = "render"
    /\ UNCHANGED <<args, img, num_objects, host, objects, blender_objects,
                   restarted, render_failures, scene_files, eps>>

\* the image is given up: main goes on to the next image
RenderFails_Skips ==
    /\ pc = "render"
    /\ render_failures < MaxRenderFailures
    /\ render_failures' = render_failures + 1
    /\ img' = img + 1
    /\ pc' = "main"
    /\ UNCHANGED <<args, num_objects, scene_struct, host, positions,
                   objects, blender_objects, i, size, num_tries, restarted,
                   scene_files, eps, rand_mat>>

\* bpy.ops.render.render raises: the exception is printed, the loop repeats
RenderFails ==
    /\ pc = "render"
    /\ render_failures < MaxRenderFailures
    /\ render_failures' = render_failures + 1
    /\ UNCHANGED <<args, pc, img, num_objects, scene_struct, host, positions,
                   objects, blender_objects, i, size, num_tries, restarted,
                   scene_files, eps, rand_mat>>

\* the render succeeds: scene_struct is written to the scene file of the
\* image, render_scene returns (its locals are gone), main goes on
RenderSucceeds ==
    /\ pc = "render"
    /\ scene_files' = scene_files \cup {img}
    /\ img' = img + 1
    /\ scene_struct' = NoScene
    /\ objects' = <<>>
    /\ blender_objects' = <<>>
    /\ restarted' = FALSE
    /\ render_failures' = 0
    /\ pc' = "main"
    /\ UNCHANGED <<args, num_objects, host, positions, i, size, num_tries,
                   eps, rand_mat>>

Next ==
    \/ StartScene
    \/ Finish
    \/ NextObject
    \/ Restart
    \/ Unsupported
    \/ TryRejected
    \/ TryAccepted
    \/ Return
    \/ RenderFails
    \/ RenderSucceeds

Spec == Init /\ [][Next]_vars

----------------------------------------------------------------------------
(* The run under fair scheduling and fair sampling.  The single thread     *)
(* never stops while it has a step to take; a render that is repeated      *)
(* succeeds in the end; and random.uniform is fair in that a round of the  *)
(* while loop that can accept a position again and again does accept one.  *)

FairSpec ==
    /\ Init
    /\ [][Next]_vars
    /\ WF_vars(Next)
    /\ WF_vars(RenderSucceeds)
    /\ SF_vars(TryAccepted)

----------------------------------------------------------------------------
(* compute_all_relationships on its own: the scene is an input.            *)

\* direction frames: those of the runs, and one whose horizontal vectors
\* have a vertical component
RelFrames ==
    Frames \cup { DirectionFrame(<<0, -3, 4>>, <<5, 0, 0>>, <<0, 4, 3>>) }

RelCoords == { <<0, 0, 0>>, <<2, 0, 0>>, <<20, 0, 0>>, <<0, 15, 10>> }

RelObjects ==
    [shape : {"cube", "sphere"}, size : {"large"}, material : {"rubber"},
     coords : RelCoords, color : {"red"}]

RelEps == { -2, 0, DefaultEps }

RECURSIVE SeqsUpTo(_, _)
SeqsUpTo(S, n) ==
    IF n = 0 THEN { <<>> }
    ELSE LET shorter == SeqsUpTo(S, n - 1)
         IN  shorter \cup { Append(q, x) : q \in shorter, x \in S }

RelInit ==
    /\ args \in { a \in Configs : a.max_retries = 2 }
    /\ pc = "rel"
    /\ img = 0
    /\ num_objects = 0
    /\ \E f \in RelFrames, objs \in SeqsUpTo(RelObjects, MaxRelObjects) :
          scene_struct = [directions |-> f, objects |-> objs,
                          relationships |-> <<>>]
    /\ host = {}
    /\ positions = <<>>
    /\ objects = <<>>
    /\ blender_objects = <<>>
    /\ i = 0
    /\ size = NoSize
    /\ num_tries = 0
    /\ restarted = FALSE
    /\ render_failures = 0
    /\ scene_files = {}
    /\ eps \in RelEps
    /\ rand_mat = 0

\* scene_struct['relationships'] = compute_all_relationships(scene_struct)
Relate ==
    /\ pc = "rel"
    /\ scene_struct' =
          [scene_struct EXCEPT
              !.relationships = compute_all_relationships(scene_struct, eps)]
    /\ pc' = "related"
    /\ UNCHANGED <<args, img, num_objects, host, positions, objects,
                   blender_objects, i, size, num_tries, restarted,
                   render_failures, scene_files, eps, rand_mat>>

RelNext == Relate

RelSpec == RelInit /\ [][RelNext]_vars

----------------------------------------------------------------------------
(* The loop around the render on its own: the run has reached the render   *)
(* of its only image with a scene of one object, placed at the first try.  *)
(* A render that is repeated succeeds in the end.                          *)

RenderInit ==
    /\ args \in { a \in Configs : /\ a.min_objects = 1
                                  /\ a.max_retries >= 1
                                  /\ a.num_images = 1 }
    /\ pc = "render"
    /\ img = 0
    /\ num_objects = 1
    /\ \E f \in CameraFrames(args), x \in XYS, y \in XYS, z \in SampleZ(0),
          s \in size_mapping, rm \in 0..1,
          c \in ShapeColorChoices(args.shape_color_combos) :
          LET r == EffectiveRadius(c[1], Radius(s[2]))
              obj == new_object(0, c[1], r, <<x, y, z>>)
              rec == [shape |-> c[2], size |-> s[1],
                      material |-> material_mapping[MaterialIndex(0, rm) + 1][2],
                      coords |-> obj.location, color |-> c[3]]
              ss == [directions |-> f, objects |-> <<rec>>,
                     relationships |-> <<>>]
          IN  /\ host = add_object({}, obj)
              /\ blender_objects = <<obj>>
              /\ objects = <<rec>>
              /\ scene_struct =
                    [ss EXCEPT !.relationships =
                                  compute_all_relationships(ss, DefaultEps)]
    /\ positions = <<>>
    /\ i = 0
    /\ size = NoSize
    /\ num_tries = 0
    /\ restarted = FALSE
    /\ render_failures = 0
    /\ scene_files = {}
    /\ eps = DefaultEps
    /\ rand_mat = 0

RenderNext ==
    \/ RenderFails
    \/ RenderSucceeds
    \/ Finish

RenderSpec ==
    /\ RenderInit
    /\ [][RenderNext]_vars
    /\ WF_vars(RenderNext)
    /\ WF_vars(RenderSucceeds)

----------------------------------------------------------------------------
(* Properties of the placement.                                            *)

\* add_random_objects is about to return: the for loop is over
AtReturn == pc = "for" /\ i >= num_objects

\* add_random_objects has returned to render_scene
Returned == pc = "render"

SqDist(p, q) ==
    (p[1] - q[1]) * (p[1] - q[1]) + (p[2] - q[2]) * (p[2] - q[2])
        + (p[3] - q[3]) * (p[3] - q[3])

\* UnitLen times the signed projection of the displacement from q to p onto
\* the direction name: x and y for the horizontal names, z for the others
Projection(name, p, q) ==
    IF name \in {"above", "below"}
    THEN (p[3] - q[3]) * scene_struct.directions[name][3]
    ELSE (p[1] - q[1]) * scene_struct.directions[name][1]
            + (p[2] - q[2]) * scene_struct.directions[name][2]

AllNames == {"left", "right", "front", "behind", "above", "below"}

\* C1: when add_random_objects returns, every two distinct objects a, b have
\* distance(a, b) - a.r - b.r >= min_dist for their recorded effective radii
C1_PairwiseDistance ==
    AtReturn =>
        \A a, b \in 1..Len(positions) :
            a # b => ~TooClose(SqDist(positions[a], positions[b]),
                               positions[a][4], positions[b][4],
                               args.min_dist)

\* a scene of two objects, one of them a cube, returned after a restart
C1_Witness ==
    /\ AtReturn
    /\ restarted
    /\ Len(positions) = 2
    /\ \E k \in 1..2 : positions[k][4].b > 0

\* C2: when add_random_objects returns, for every ordered pair of distinct
\* objects and each of the six directions the signed projection of the
\* displacement is <= 0 or >= margin
C2_DirectionalMargin ==
    AtReturn =>
        \A a, b \in 1..Len(positions) : \A name \in AllNames :
            a # b =>
                LET m == Projection(name, positions[a], positions[b])
                IN  m <= 0 \/ m >= UnitLen * args.margin

\* a returned scene of two objects in which the older object is separated
\* from the newer one by at least the margin along a horizontal direction
C2_Witness ==
    /\ AtReturn
    /\ Len(positions) = 2
    /\ args.margin > 0
    /\ \E name \in {"left", "right", "front", "behind"} :
          Projection(name, positions[1], positions[2])
              >= UnitLen * args.margin

\* C3: with num_objects = 2 a returned scene has object 0 at z in [1, 4]
\* and object 1 at z = 0, both with x and y in [-3, 3], so that object 0 is
\* strictly above object 1
C3_RoleHeights ==
    (AtReturn /\ num_objects = 2) =>
        /\ Len(positions) = 2
        /\ positions[1][3] >= ZMin /\ positions[1][3] <= ZMax
        /\ positions[2][3] = ZGround
        /\ positions[1][3] > positions[2][3]
        /\ \A k \in 1..2 :
              /\ positions[k][1] >= XYMin /\ positions[k][1] <= XYMax
              /\ positions[k][2] >= XYMin /\ positions[k][2] <= XYMax
              /\ objects[k].coords
                    = <<positions[k][1], positions[k][2], positions[k][3]>>

\* a scene of two objects about to be returned by a restarted placement
C3_Witness ==
    /\ AtReturn
    /\ num_objects = 2
    /\ restarted
    /\ Len(objects) = 2

\* C4: the scene that add_random_objects returns has exactly num_objects
\* objects and exactly num_objects host objects, restarts or not
C4_FullScene ==
    Returned =>
        /\ Len(objects) = num_objects
        /\ Len(blender_objects) = num_objects
        /\ Cardinality(host) = num_objects
        /\ Len(scene_struct.objects) = num_objects

\* a scene of two objects returned after the retry budget was exhausted
C4_Witness ==
    /\ Returned
    /\ restarted
    /\ num_objects = 2
    /\ Cardinality(host) = 2

\* C5: no host object stems from an abandoned attempt; while objects are
\* placed the host holds exactly the objects of the current attempt; the
\* scene record and the host hold, at return, the objects of the final
\* attempt in placement order
C5_NoLeak ==
    /\ \A o \in host : ~o.stale
    /\ pc \in {"for", "while"} => host = Range(blender_objects)
    /\ Returned =>
          /\ host = Range(blender_objects)
          /\ scene_struct.objects = objects
          /\ Len(blender_objects) = Len(objects)
          /\ \A k \in 1..Len(objects) :
                /\ blender_objects[k].idx = k - 1
                /\ blender_objects[k].location = objects[k].coords

\* a scene record of two objects made after an attempt was abandoned
C5_Witness ==
    /\ Returned
    /\ restarted
    /\ Len(scene_struct.objects) = 2
    /\ host = Range(blender_objects)

\* C6: when the unsupported-configuration error is raised no object has
\* been placed in the host for the scene and no scene record of the run has
\* been written
C6_AbortsBeforeAnyScene ==
    pc = "error" => (host = {} /\ scene_files = {})

InPlacement == pc \in {"for", "while"}

\* C7: for every configuration add_random_objects stops after a bounded
\* number of sampling attempts: a call that was entered is left, by a
\* return or by an error
C7_PlacementStops == InPlacement ~> ~InPlacement

----------------------------------------------------------------------------
(* Properties of compute_all_relationships.                                *)

Related0 == pc = "related"

Elems(s) == { s[k] : k \in 1..Len(s) }

\* j is in relation[name][i]
InRel(name, i1, j) == j \in Elems(scene_struct.relationships[name][i1 + 1])

Indices == 0..(Len(scene_struct.objects) - 1)

Coords(k) == scene_struct.objects[k + 1].coords

C9_Irreflexive ==
    Related0 =>
        \A name \in RelationNames : \A i1 \in Indices : ~InRel(name, i1, i1)

\* relations of several objects under a negative threshold, where an object
\* compared with itself would pass the test
C9_Witness ==
    /\ Related0
    /\ eps < 0
    /\ Len(scene_struct.objects) >= 2
    /\ \E i1, j \in Indices : InRel("left", i1, j)

\* C10: j is in relation[front][i] iff i is in relation[behind][j], and j is
\* in relation[left][i] iff i is in relation[right][j]; for the positions
\* (0,0,0), (2,0,0), front = (1,0,0) and eps = 0.2, 1 is in
\* relation[front][0] and 0 is in relation[behind][1]
C10_OppositeRelations ==
    Related0 =>
        /\ \A i1, j \in Indices :
              i1 # j =>
                  /\ InRel("front", i1, j) <=> InRel("behind", j, i1)
                  /\ InRel("left", i1, j) <=> InRel("right", j, i1)
        /\ ( /\ Len(scene_struct.objects) >= 2
             /\ Coords(0) = <<0, 0, 0>>
             /\ Coords(1) = <<20, 0, 0>>
             /\ scene_struct.directions["front"] = <<5, 0, 0>>
             /\ eps = DefaultEps )
           => (InRel("front", 0, 1) /\ InRel("behind", 1, 0))

\* the scene of the example, related
C10_Witness ==
    /\ Related0
    /\ Len(scene_struct.objects) = 2
    /\ Coords(0) = <<0, 0, 0>>
    /\ Coords(1) = <<20, 0, 0>>
    /\ scene_struct.directions["front"] = <<5, 0, 0>>
    /\ eps = DefaultEps
    /\ InRel("front", 0, 1)

\* C14: the relationships have exactly the keys left, right, front and
\* behind; each key maps to a list with one entry per object, the entry of
\* object i holding only objects related to object i; and each entry is a
\* list of object indices in strictly ascending order
C14_GraphShape ==
    Related0 =>
        /\ DOMAIN scene_struct.relationships
              = {"left", "right", "front", "behind"}
        /\ \A name \in DOMAIN scene_struct.relationships :
              LET rel == scene_struct.relationships[name]
              IN  /\ DOMAIN rel = 1..Len(scene_struct.objects)
                  /\ \A k \in DOMAIN rel :
                        /\ DOMAIN rel[k] = 1..Len(rel[k])
                        /\ \A p \in 1..Len(rel[k]) :
                              /\ rel[k][p] \in Indices
                              /\ Dot(Coords(k - 1), Coords(rel[k][p]),
                                     scene_struct.directions[name])
                                    > UnitLen * eps
                        /\ \A p \in 1..(Len(rel[k]) - 1) :
                              rel[k][p] < rel[k][p + 1]

\* three objects related, two of them behind the first and none behind the
\* second
C14_Witness ==
    /\ Related0
    /\ Len(scene_struct.objects) = 3
    /\ scene_struct.relationships["behind"][1] = <<1, 2>>
    /\ scene_struct.relationships["behind"][2] = <<>>

----------------------------------------------------------------------------
(* Properties of the attributes of the objects.                            *)

\* C11: when a table of shapes and colors is supplied, every object placed,
\* and every object of a returned scene, has a color of the list of the
\* table for its shape, also after restarts
C11_ShapeColorInTable ==
    args.shape_color_combos # NoCombos =>
        \A objs \in {objects, scene_struct.objects} :
            \A k \in 1..Len(objs) :
                \E e \in 1..Len(args.shape_color_combos) :
                    /\ args.shape_color_combos[e][1] = objs[k].shape
                    /\ objs[k].color \in Elems(args.shape_color_combos[e][2])

\* a scene of a cube and a sphere returned under a table after a restart
C11_Witness ==
    /\ Returned
    /\ restarted
    /\ args.shape_color_combos # NoCombos
    /\ Len(scene_struct.objects) = 2
    /\ scene_struct.objects[1].shape # scene_struct.objects[2].shape

\* C12: in a returned scene of two objects one binary choice c decides the
\* materials: object 0 has entry c of the catalog of materials and object 1
\* has entry 1 - c, so the two materials differ, whatever the restarts
C12_MaterialsRoleTied ==
    (Returned /\ Len(scene_struct.objects) = 2) =>
        /\ \E c \in 0..1 :
              /\ scene_struct.objects[1].material
                    = material_mapping[c + 1][2]
              /\ scene_struct.objects[2].material
                    = material_mapping[(1 - c) + 1][2]
        /\ scene_struct.objects[1].material
              # scene_struct.objects[2].material

\* a scene returned after a restart whose object 0 has the second material
C12_Witness ==
    /\ Returned
    /\ restarted
    /\ Len(scene_struct.objects) = 2
    /\ scene_struct.objects[1].material = material_mapping[2][2]

----------------------------------------------------------------------------
(* Properties of the loop around the render.                               *)

Images == 0..2

\* C13: every step taken at the render either leaves the thread at the
\* render of the same image with the same scene (a failure, retried) or
\* writes the record of that image and goes on with main (a success); the
\* record of an image is written by no other step; and under RenderSpec,
\* where a repeated render succeeds in the end, the record of an image
\* whose render was reached is written in the end
C13_RenderRetried ==
    /\ [][pc = "render" =>
            \/ /\ pc' = "render"
               /\ img' = img
               /\ scene_struct' = scene_struct
               /\ scene_files' = scene_files
            \/ /\ pc' = "main"
               /\ img' = img + 1
               /\ scene_files' = scene_files \cup {img}]_vars
    /\ [][scene_files' # scene_files =>
            /\ pc = "render"
            /\ img \notin scene_files
            /\ scene_files' = scene_files \cup {img}]_vars
    /\ \A k \in Images : (pc = "render" /\ img = k) ~> (k \in scene_files)

\* a render has failed: the thread is at the render of the same image
\* again, with the scene, and no record of the image is written
C13_Witness ==
    /\ pc = "render"
    /\ render_failures >= 1
    /\ Len(scene_struct.objects) >= 1
    /\ img \notin scene_files

----------------------------------------------------------------------------
(* Properties of the sampling loop.                                        *)

\* the while loop is about to sample a position for object i
Sampling == pc = "while" /\ num_tries + 1 <= args.max_retries /\ i < 2

\* the constraints of the placement for a new object at (x, y, z) of radius
\* r against the placed objects with their recorded radii
ConstraintsMet(x, y, z, r) ==
    \A k \in 1..Len(positions) :
        /\ ~TooClose(SqDist(<<x, y, z>>, positions[k]), r, positions[k][4],
                     args.min_dist)
        /\ \A name \in AllNames :
              LET m == Projection(name, <<x, y, z>>, positions[k])
              IN  m <= 0 \/ m >= UnitLen * args.margin

\* C15: a sampled position is accepted, for an object of whatever shape is
\* drawn for it, exactly when it meets the constraints with the effective
\* radius of that shape (divided by sqrt 2 for a cube) and the effective
\* radii of the placed objects
C15_AcceptedIffEffective ==
    Sampling =>
        \A x \in XYS, y \in XYS, z \in SampleZ(i),
           c \in ShapeColorChoices(args.shape_color_combos) :
            (ENABLED Accept(x, y, z, <<c[1], c[2]>>, c[3]))
                <=> ConstraintsMet(x, y, z,
                                   EffectiveRadius(c[1], Radius(size[2])))

\* the sampled position (x, y, z) is accepted, for some shape and color
AcceptedAt(x, y, z) ==
    \E c \in ShapeColorChoices(args.shape_color_combos) :
        Accept(x, y, z, <<c[1], c[2]>>, c[3])

\* C15, amended: a sampled position is accepted exactly when it meets the
\* constraints with the radius of the size drawn for the new object, not
\* divided whatever the shape drawn afterwards, and the recorded effective
\* radii of the placed objects, and it is rejected exactly when it does
\* not; the position of every object that is placed met the constraints
\* with the undivided radius, and its radius is recorded divided for a cube
C15_AcceptedIffCatalogRadius ==
    /\ [](Sampling =>
            \A x \in XYS, y \in XYS, z \in SampleZ(i) :
                /\ (ENABLED AcceptedAt(x, y, z))
                      <=> ConstraintsMet(x, y, z, Radius(size[2]))
                /\ (ENABLED Reject(x, y, z))
                      <=> ~ConstraintsMet(x, y, z, Radius(size[2])))
    /\ [][(Sampling /\ pc' = "for" /\ i' = i + 1) =>
            LET p == positions'[i + 1]
            IN  /\ ConstraintsMet(p[1], p[2], p[3], Radius(size[2]))
                /\ p[4] = IF objects'[i + 1].shape = "cube"
                          THEN DivSqrt2(Radius(size[2]))
                          ELSE Radius(size[2])]_vars

\* the second object is being sampled after a restart, and a position
\* that meets the constraints with the radius of a cube is rejected
C15_Witness ==
    /\ Sampling
    /\ i = 1
    /\ restarted
    /\ \E x \in XYS, y \in XYS, z \in SampleZ(i) :
          /\ ENABLED Reject(x, y, z)
          /\ ConstraintsMet(x, y, z,
                            EffectiveRadius("Cube", Radius(size[2])))

\* a step of the while loop that starts the scene over
RestartStep == pc = "while" /\ pc' = "for" /\ i' = 0

\* C16: the counter of tries is zero when the while loop of an object is
\* entered; a rejected position adds one to it and changes nothing placed;
\* it never exceeds max_retries, so an object gets at most max_retries
\* sampled positions; the scene is started over only when the counter is
\* max_retries, and then no other step is taken; and the new attempt
\* starts at object 0 with no position, no record and no handle
C16_RetryBudget ==
    /\ [](pc \in {"for", "while"} => num_tries <= args.max_retries)
    /\ [][/\ (pc = "for" /\ pc' = "while") => num_tries' = 0
          /\ (pc = "while" /\ pc' = "while") =>
                /\ num_tries' = num_tries + 1
                /\ i' = i
                /\ positions' = positions
          /\ (pc = "while" /\ pc' = "for" /\ i' # 0) =>
                /\ num_tries < args.max_retries
                /\ i' = i + 1
                /\ Len(positions') = Len(positions) + 1
          /\ RestartStep =>
                /\ num_tries = args.max_retries
                /\ positions' = <<>>
                /\ objects' = <<>>
                /\ blender_objects' = <<>>
                /\ num_tries' = 0
          /\ (pc = "while" /\ num_tries = args.max_retries) => RestartStep
         ]_vars

\* after a restart, the budget of two tries of the second object is used up
\* again
C16_Witness ==
    /\ pc = "while"
    /\ restarted
    /\ i = 1
    /\ args.max_retries = 2
    /\ num_tries = args.max_retries

----------------------------------------------------------------------------
(* Properties of the relationships of the scenes that are placed.          *)

\* C17: in a returned scene, when 0 <= eps < margin, for every two distinct
\* objects i, j and each of left, right, front, behind: if the displacement
\* from i to j along the direction is zero, neither is related to the other
\* under that name; otherwise exactly one of j in relation[name][i] and
\* i in relation[name][j] holds
C17_Unambiguous ==
    (Returned /\ 0 <= eps /\ eps < args.margin) =>
        \A i1, j \in Indices : \A name \in {"left", "right", "front", "behind"} :
            i1 # j =>
                LET m == Dot(Coords(i1), Coords(j),
                             scene_struct.directions[name])
                IN  IF m = 0
                    THEN ~InRel(name, i1, j) /\ ~InRel(name, j, i1)
                    ELSE InRel(name, i1, j) # InRel(name, j, i1)

\* a scene returned after a restart whose two objects are level along one
\* axis and apart along the other
C17_Witness ==
    /\ Returned
    /\ restarted
    /\ eps < args.margin
    /\ Len(scene_struct.objects) = 2
    /\ Dot(Coords(0), Coords(1), scene_struct.directions["left"]) = 0
    /\ InRel("front", 0, 1)
    /\ ~InRel("front", 1, 0)

====
